---- MODULE Spec2Model ----
(***************************************************************************)
(* A model of build.js, the unified release build script of CodeSolver     *)
(* Pro: build() dispatches on the command line selector and runs           *)
(* buildPlatform once per selected platform; buildPlatform cleans the      *)
(* release directory, copies the manifest, protects every module           *)
(* (processJsFile), copies the optional assets and writes README.md.       *)
(*                                                                         *)
(* Text is a sequence of one-character strings, a file's content a         *)
(* sequence of strings, a directory a set of entries (path, kind, data).   *)
(***************************************************************************)
EXTENDS Integers, Sequences, FiniteSets, TLC

(***************************************************************************)
(* Bounds of the model.                                                    *)
(***************************************************************************)
\* invocations of the script in one behaviour
MaxRuns == 2
\* pieces a drawn module text is made of
MaxPieces == 2
\* configured modules that may be absent from src/js at once
MaxMissing == 1
\* calendar days the behaviour may span
MaxDay == 2
\* entries of a directory tree handed to copyDir
MaxEntries == 3

(***************************************************************************)
(* Text helpers.                                                           *)
(***************************************************************************)
sChrome == << "c", "h", "r", "o", "m", "e" >>
sCh == << "c", "h" >>
sFirefox == << "f", "i", "r", "e", "f", "o", "x" >>
sFf == << "f", "f" >>
sAll == << "a", "l", "l" >>
sBoth == << "b", "o", "t", "h" >>

UpperCase == << "A", "B", "C", "D", "E", "F", "G", "H", "I", "J", "K", "L", "M",
                "N", "O", "P", "Q", "R", "S", "T", "U", "V", "W", "X", "Y", "Z" >>
LowerCase == << "a", "b", "c", "d", "e", "f", "g", "h", "i", "j", "k", "l", "m",
                "n", "o", "p", "q", "r", "s", "t", "u", "v", "w", "x", "y", "z" >>

\* String.prototype.toLowerCase on one character
toLowerChar(c) ==
    IF \E i \in 1..Len(UpperCase) : UpperCase[i] = c
    THEN LowerCase[CHOOSE i \in 1..Len(UpperCase) : UpperCase[i] = c]
    ELSE c

toLowerCase(s) == [i \in 1..Len(s) |-> toLowerChar(s[i])]

(***************************************************************************)
(* CONFIG and PLATFORMS.                                                   *)
(***************************************************************************)
jsFiles == << "background.js", "content.js", "injected.js", "sidepanel.js" >>
cssFiles == << "sidepanel.css" >>
htmlFiles == << "sidepanel.html" >>
copyDirs == << "icons" >>

PlatformKeys == { "chrome", "firefox" }

\* CONFIG.sourceDir, relative to the directory of the script
sourceDir == "src"

\* a registry whose two platforms share one release directory
PLATFORMSShared ==
    [ chrome  |-> [ name |-> "Chrome", releaseDir |-> "chrome_release",
                    manifestFile |-> "chrome.json", namespace |-> "chrome" ],
      firefox |-> [ name |-> "Firefox", releaseDir |-> "chrome_release",
                    manifestFile |-> "firefox.json", namespace |-> "browser" ] ]

PLATFORMS ==
    [ chrome  |-> [ name |-> "Chrome", releaseDir |-> "chrome_release",
                    manifestFile |-> "chrome.json", namespace |-> "chrome" ],
      firefox |-> [ name |-> "Firefox", releaseDir |-> "firefox_release",
                    manifestFile |-> "firefox.json", namespace |-> "browser" ] ]

\* the regular expression /chrome\./g and its replacement 'browser.'
LegacyToken == << "c", "h", "r", "o", "m", "e", "." >>
ModernToken == << "b", "r", "o", "w", "s", "e", "r", "." >>

\* the template literal prepended by the Firefox transform
polyfill == <<
    "\n", "/", "/", " ", "F", "i", "r", "e", "f", "o", "x", " ",
    "c", "o", "m", "p", "a", "t", "i", "b", "i", "l", "i", "t",
    "y", "\n", "i", "f", " ", "(", "t", "y", "p", "e", "o", "f",
    " ", "b", "r", "o", "w", "s", "e", "r", " ", "=", "=", "=",
    " ", "'", "u", "n", "d", "e", "f", "i", "n", "e", "d", "'",
    ")", " ", "{", "\n", " ", " ", "v", "a", "r", " ", "b", "r",
    "o", "w", "s", "e", "r", " ", "=", " ", "c", "h", "r", "o",
    "m", "e", ";", "\n", "}", "\n" >>

MatchAt(code, i) ==
    /\ i + Len(LegacyToken) - 1 <= Len(code)
    /\ SubSeq(code, i, i + Len(LegacyToken) - 1) = LegacyToken

\* the replacement without the g flag: the first occurrence only
RECURSIVE ReplaceFirstFrom(_, _)
ReplaceFirstFrom(code, i) ==
    IF i > Len(code) THEN << >>
    ELSE IF i + Len(LegacyToken) - 1 <= Len(code)
            /\ SubSeq(code, i, i + Len(LegacyToken) - 1) = LegacyToken
         THEN ModernToken \o SubSeq(code, i + Len(LegacyToken), Len(code))
         ELSE << code[i] >> \o ReplaceFirstFrom(code, i + 1)

\* code.replace(/chrome\./g, 'browser.'): a left-to-right scan from position i
RECURSIVE ReplaceFrom(_, _)
ReplaceFrom(code, i) ==
    IF i > Len(code) THEN << >>
    ELSE IF MatchAt(code, i)
         THEN ModernToken \o ReplaceFrom(code, i + Len(LegacyToken))
         ELSE << code[i] >> \o ReplaceFrom(code, i + 1)

firefoxTransform(code) == polyfill \o ReplaceFrom(code, 1)

chromeTransform(code) == code

apiTransform(key, code) ==
    IF key = "firefox" THEN firefoxTransform(code) ELSE chromeTransform(code)

(***************************************************************************)
(* Directories: a set of entries; a path is a sequence of names.           *)
(***************************************************************************)
File(path, data) == [ path |-> path, kind |-> "file", data |-> data ]
Dir(path) == [ path |-> path, kind |-> "dir", data |-> << >> ]

NoDir == [ exists |-> FALSE, entries |-> {} ]
EmptyDir == [ exists |-> TRUE, entries |-> {} ]

Paths(entries) == { e.path : e \in entries }

\* entries after writing `new` over `entries` (same path: replaced)
Overlay(entries, new) ==
    { e \in entries : e.path \notin Paths(new) } \cup new

HasFile(d, path) == \E e \in d.entries : e.path = path /\ e.kind = "file"
DataOf(d, path) == (CHOOSE e \in d.entries : e.path = path).data

\* the entries of `tree` below its top-level directory `name`, made relative
SubTree(tree, name) ==
    { [ e EXCEPT !.path = Tail(e.path) ] :
        e \in { x \in tree : Len(x.path) > 1 /\ Head(x.path) = name } }

TopLevel(tree) == { e \in tree : Len(e.path) = 1 }

\* copyDir(src, dest) on an existing source: the entries it creates
RECURSIVE copyDirEntries(_, _)
copyDirEntries(tree, dest) ==
    { Dir(dest) } \cup
    UNION { IF e.kind = "dir"
            THEN copyDirEntries(SubTree(tree, e.path[1]), dest \o e.path)
            ELSE { File(dest \o e.path, e.data) } : e \in TopLevel(tree) }

(***************************************************************************)
(* The environment of a behaviour: the source tree, package.json, the      *)
(* inputs on which a protection pass fails, the I/O faults, and the        *)
(* command lines the script is started with.                               *)
(***************************************************************************)
Pieces == { LegacyToken, sChrome, << "." >>, << "x" >>, ModernToken }

RECURSIVE TextsOf(_)
TextsOf(n) ==
    IF n = 0 THEN { << >> }
    ELSE LET shorter == TextsOf(n - 1)
         IN  shorter \cup { t \o q : t \in shorter, q \in Pieces }

Texts == TextsOf(MaxPieces)

\* "chrome.storage.get(x)"
SampleBackground ==
    << "c", "h", "r", "o", "m", "e", ".", "s", "t", "o", "r", "a", "g", "e",
       ".", "g", "e", "t", "(", "x", ")" >>

DefaultText ==
    [ m \in { jsFiles[i] : i \in 1..Len(jsFiles) } |->
        CASE m = "background.js" -> SampleBackground
          [] m = "content.js" -> << "x", "=", "1" >>
          [] m = "injected.js" -> sChrome \o LegacyToken \o << "y" >>
          [] OTHER -> ModernToken \o << "z" >> ]

IconsTree ==
    { File(<< "icon16.png" >>, << "png16" >>),
      Dir(<< "sub" >>),
      File(<< "sub", "icon48.png" >>, << "png48" >>) }

\* a copy that takes Chrome's manifest for every platform
ManifestDataChrome(key) == << "manifest of " \o PLATFORMS["chrome"].manifestFile >>

ManifestData(key) == << "manifest of " \o PLATFORMS[key].manifestFile >>

FaultPoints ==
    { "rm", "mkdir", "copyManifest", "writeJs", "copyCss", "copyHtml",
      "copyDir", "writeReadme" }

NoArgs == << >>
KnownArgs == { sChrome, sCh, sFirefox, sFf, sAll, sBoth }
AllArgvs ==
    { NoArgs, << << >> >>, << << "e", "d", "g", "e" >> >>,
      << << "F", "F" >> >>, << << "C", "h", "r", "o", "m", "e" >> >> }
      \cup { << a >> : a \in KnownArgs }
FewArgvs == { << sChrome >>, << sFirefox >>, << sAll >> }

\* package.json: absent, unreadable, not JSON, the JSON value null, or an
\* object with or without a "version" member
Descriptor(v) == [ state |-> "parsed", hasVersion |-> TRUE, version |-> v ]

NoVersion == [ state |-> "parsed", hasVersion |-> FALSE, version |-> "" ]

Unusable(how) == [ state |-> how, hasVersion |-> FALSE, version |-> "" ]

DefaultEnv ==
    [ manifests |-> PlatformKeys,
      jsMissing |-> {},
      jsText    |-> DefaultText,
      css       |-> TRUE,
      html      |-> TRUE,
      icons     |-> [ exists |-> TRUE, entries |-> IconsTree ],
      pkg       |-> Descriptor("2.3.1"),
      minifyErr |-> {},
      obfErr    |-> {},
      faults    |-> {},
      argvs     |-> FewArgvs ]

ModuleNames == { jsFiles[i] : i \in 1..Len(jsFiles) }

EnvArgs == { [ DefaultEnv EXCEPT !.argvs = AllArgvs ] }

EnvTexts ==
    { [ DefaultEnv EXCEPT !.jsText = [ DefaultText EXCEPT !["background.js"] = t ],
                          !.argvs = { << sFirefox >>, << sAll >> } ] :
        t \in Texts }

OptionalShapes ==
    { [ css |-> c, html |-> h, icons |-> i ] :
        c \in BOOLEAN, h \in BOOLEAN,
        i \in { [ exists |-> FALSE, entries |-> {} ],
                [ exists |-> TRUE, entries |-> {} ],
                [ exists |-> TRUE, entries |-> IconsTree ] } }

EnvShapes ==
    { [ DefaultEnv EXCEPT !.jsMissing = ms, !.manifests = mf,
                          !.css = o.css, !.html = o.html, !.icons = o.icons ] :
        ms \in { x \in SUBSET ModuleNames : Cardinality(x) <= MaxMissing },
        mf \in { PlatformKeys, { "chrome" }, { "firefox" } },
        o \in { x \in OptionalShapes :
                  Cardinality({ f \in { "css", "html" } : ~x[f] })
                    + (IF x.icons.entries = {} THEN 1 ELSE 0) <= 1 } }

EnvFaults ==
    { [ DefaultEnv EXCEPT !.faults = { << k, p >> } ] :
        k \in PlatformKeys, p \in FaultPoints }

EnvProtect ==
    { [ DefaultEnv EXCEPT !.minifyErr = { << k, m >> } ] :
        k \in PlatformKeys, m \in ModuleNames }
    \cup
    { [ DefaultEnv EXCEPT !.obfErr = { << k, m >> } ] :
        k \in PlatformKeys, m \in ModuleNames }

EnvPkg ==
    { [ DefaultEnv EXCEPT !.pkg = v ] :
        v \in { Unusable("absent"), Unusable("unreadable"), Unusable("unparsable"),
                Unusable("null"), NoVersion, Descriptor("") } }

StaleEntries ==
    { File(<< "old.js" >>, << "stale" >>),
      File(<< "background.js" >>, << "stale" >>),
      Dir(<< "icons" >>),
      File(<< "icons", "old.png" >>, << "stale" >>) }

StaleDir == [ exists |-> TRUE, entries |-> StaleEntries ]

\* the environments drawn, each with the release directories it may start from
Starts ==
    { [ envs |-> EnvArgs,    priors |-> { NoDir, StaleDir } ],
      [ envs |-> EnvTexts,   priors |-> { NoDir } ],
      [ envs |-> EnvShapes,  priors |-> { NoDir, StaleDir } ],
      [ envs |-> EnvFaults,  priors |-> { NoDir, EmptyDir, StaleDir } ],
      [ envs |-> EnvProtect, priors |-> { StaleDir } ],
      [ envs |-> EnvPkg,     priors |-> { NoDir } ] }

\* the environments the liveness specification draws
FairStarts ==
    { [ envs |-> EnvArgs,   priors |-> { NoDir, StaleDir } ],
      [ envs |-> EnvShapes, priors |-> { StaleDir } ],
      [ envs |-> EnvFaults, priors |-> { EmptyDir } ],
      [ envs |-> EnvPkg,    priors |-> { NoDir } ] }

(***************************************************************************)
(* State.                                                                  *)
(***************************************************************************)
VARIABLES
    env,         \* the source tree and the rest of the environment (fixed)
    out,         \* the release directory of each platform
    today,       \* the calendar day (new Date())
    runs,        \* invocations started so far
    pc,          \* position of the running invocation
    argv,        \* process.argv.slice(2)
    target,      \* build(): const target
    todo,        \* platforms build() still has to build, the current one first
    idx,         \* position in the list the current loop iterates
    sourceCode,  \* processJsFile: let sourceCode
    minified,    \* processJsFile: minified.code
    obfuscated,  \* processJsFile: obfuscationResult.getObfuscatedCode()
    exitCode,    \* exit status of the invocation, -1 while it runs
    err,         \* the error that reached build()'s catch
    failedAt,    \* the step that threw it
    log,         \* notices printed by this invocation
    started,     \* platforms whose buildPlatform was entered, in order
    completed,   \* platforms whose buildPlatform returned
    before,      \* each release directory as it was when its build was entered
    wrote,       \* paths each platform's current build has written
    builtEver,   \* platforms built by an earlier invocation
    walk         \* a call of copyDir followed step by step, frame by frame

vars ==
    << env, out, today, runs, pc, argv, target, todo, idx, sourceCode, minified,
       obfuscated, exitCode, err, failedAt, log, started, completed, before, wrote,
       builtEver, walk >>

work == << sourceCode, minified, obfuscated >>
history == << started, completed, before, wrote, builtEver >>
world == << env, today, runs, walk >>

(***************************************************************************)
(* The two protection passes are external libraries; they are modelled as  *)
(* injective text-to-text functions that wrap their input in a marker.     *)
(***************************************************************************)
terserMinify(code) == << "terser(" >> \o code \o << ")" >>

\* an obfuscator that draws a fresh seed in every run of the script
obfuscateSeeded(code) == << "obfuscate(", ToString(runs) >> \o code \o << ")" >>

obfuscate(code) == << "obfuscate(" >> \o code \o << ")" >>

\* no call of copyDir is being followed
NoWalk ==
    [ status |-> "idle", srcExists |-> FALSE, src |-> {}, unreadable |-> {},
      dest0 |-> {}, dest |-> {}, stack |-> << >> ]

InitBuild(starts) ==
    /\ \E s \in starts :
        /\ env \in s.envs
        /\ \E d \in s.priors : out = [ k \in PlatformKeys |-> d ]
    /\ today = 1
    /\ runs = 0
    /\ pc = "idle"
    /\ argv = NoArgs
    /\ target = << >>
    /\ todo = << >>
    /\ idx = 1
    /\ sourceCode = << >>
    /\ minified = << >>
    /\ obfuscated = << >>
    /\ exitCode = -1
    /\ err = "none"
    /\ failedAt = "none"
    /\ log = {}
    /\ started = << >>
    /\ completed = {}
    /\ before = [ k \in PlatformKeys |-> NoDir ]
    /\ wrote = [ k \in PlatformKeys |-> {} ]
    /\ builtEver = {}

InitFrom(starts) == InitBuild(starts) /\ walk = NoWalk

Init == InitFrom(Starts)

InitFair == InitFrom(FairStarts)

\* names every object has: PLATFORMS[key] finds them on Object.prototype
ProtoKeys == { "constructor" }

\* a lookup that falls back to Chrome for a key it does not know
lookupOrChrome(key) ==
    IF key \in PlatformKeys
    THEN [ defined |-> TRUE, dir |-> key ]
    ELSE [ defined |-> TRUE, dir |-> "chrome" ]

\* const platform = PLATFORMS[platformKey]: is it defined, and whose
\* releaseDir does it carry ("undefined": none)
lookup(key) ==
    IF key \in PlatformKeys THEN [ defined |-> TRUE, dir |-> key ]
    ELSE IF key \in ProtoKeys THEN [ defined |-> TRUE, dir |-> "undefined" ]
    ELSE [ defined |-> FALSE, dir |-> "undefined" ]

\* the platform whose release directory the running buildPlatform works on
Cur == lookup(Head(todo)).dir

Faulty(key, point) == << key, point >> \in env.faults

\* writeFile / copyFile into the release directory of `key`
WriteOut(key, path, data) ==
    /\ out' = [ out EXCEPT ![key].entries = Overlay(@, { File(path, data) }) ]
    /\ wrote' = [ wrote EXCEPT ![key] = @ \cup { path } ]

\* a handler that reports the error and lets the process end normally
ThrowQuiet(kind) ==
    /\ pc' = "exiting"
    /\ exitCode' = 0
    /\ err' = kind
    /\ failedAt' = pc
    /\ log' = log \cup { << "error", kind >> }

\* an error that propagates to the catch of build(): console.error, process.exit(1)
Throw(kind) ==
    /\ pc' = "exiting"
    /\ exitCode' = 1
    /\ err' = kind
    /\ failedAt' = pc
    /\ log' = log \cup { << "error", kind >> }

(***************************************************************************)
(* build(): the command line.                                              *)
(***************************************************************************)
Invoke ==
    /\ pc = "idle"
    /\ runs < MaxRuns
    /\ \E a \in env.argvs : argv' = a
    /\ runs' = runs + 1
    /\ pc' = "main"
    /\ UNCHANGED << env, walk, out, today, target, todo, idx, work, exitCode, err, failedAt, log,
                    history >>

\* const target = args[0] ? args[0].toLowerCase() : 'all'
parseTarget(args) ==
    IF Len(args) > 0 /\ args[1] # << >> THEN toLowerCase(args[1]) ELSE sAll

\* the chain with the two builds of "all" in the other order
buildOrderFirefoxFirst(t) ==
    IF t = sChrome \/ t = sCh THEN << "chrome" >>
    ELSE IF t = sFirefox \/ t = sFf THEN << "firefox" >>
    ELSE IF t = sAll \/ t = sBoth THEN << "firefox", "chrome" >>
    ELSE << >>

\* the chain with the second build of "all" forgotten
buildOrderChromeOnly(t) ==
    IF t = sChrome \/ t = sCh THEN << "chrome" >>
    ELSE IF t = sFirefox \/ t = sFf THEN << "firefox" >>
    ELSE IF t = sAll \/ t = sBoth THEN << "chrome" >>
    ELSE << >>

\* the if / else-if chain of build(): the platforms built, in order
buildOrder(t) ==
    IF t = sChrome \/ t = sCh THEN << "chrome" >>
    ELSE IF t = sFirefox \/ t = sFf THEN << "firefox" >>
    ELSE IF t = sAll \/ t = sBoth THEN << "chrome", "firefox" >>
    ELSE << >>

Main ==
    /\ pc = "main"
    /\ target' = parseTarget(argv)
    /\ IF buildOrder(target') # << >>
       THEN /\ todo' = buildOrder(target')
            /\ pc' = "enter"
            /\ UNCHANGED << exitCode, err, failedAt, log >>
       ELSE /\ todo' = << >>
            /\ pc' = "exiting"
            /\ exitCode' = 1
            /\ log' = log \cup { << "unknown target", target' >> }
            /\ UNCHANGED << err, failedAt >>
    /\ UNCHANGED << world, out, argv, idx, work, history >>

(***************************************************************************)
(* buildPlatform(platformKey).                                             *)
(***************************************************************************)
\* platform.name of an undefined platform throws a TypeError
EnterPlatform ==
    /\ pc = "enter"
    /\ IF ~lookup(Head(todo)).defined
       THEN Throw("TypeError") /\ UNCHANGED << started, before, wrote >>
       ELSE /\ started' = Append(started, Head(todo))
            /\ IF Cur \in PlatformKeys
               THEN /\ before' = [ before EXCEPT ![Cur] = out[Cur] ]
                    /\ wrote' = [ wrote EXCEPT ![Cur] = {} ]
               ELSE UNCHANGED << before, wrote >>
            /\ pc' = "rm"
            /\ UNCHANGED << exitCode, err, failedAt, log >>
    /\ UNCHANGED << world, out, argv, target, todo, idx, work, completed, builtEver >>

\* removeDir: fs.rm(..., { recursive, force }) inside try / catch {}
removeDir(key) ==
    IF Faulty(key, "rm") THEN out[key] ELSE NoDir

RemoveDir ==
    /\ pc = "rm"
    /\ out' = IF Cur \in PlatformKeys
              THEN [ out EXCEPT ![Cur] = removeDir(Cur) ]
              ELSE out
    /\ pc' = "ensure"
    /\ UNCHANGED << world, argv, target, todo, idx, work, exitCode, err, failedAt, log,
                    history >>

\* ensureDir: fs.access, and fs.mkdir when it throws
EnsureDir ==
    /\ pc = "ensure"
    /\ IF Cur \notin PlatformKeys
       THEN Throw("TypeError") /\ UNCHANGED out
       ELSE IF out[Cur].exists
       THEN /\ pc' = "manifest"
            /\ UNCHANGED << out, exitCode, err, failedAt, log >>
       ELSE IF Faulty(Cur, "mkdir")
            THEN Throw("EIO") /\ UNCHANGED out
            ELSE /\ out' = [ out EXCEPT ![Cur] = EmptyDir ]
                 /\ pc' = "manifest"
                 /\ UNCHANGED << exitCode, err, failedAt, log >>
    /\ UNCHANGED << world, argv, target, todo, idx, work, history >>

CopyManifest ==
    /\ pc = "manifest"
    /\ IF Cur \notin env.manifests
       THEN Throw("ENOENT") /\ UNCHANGED << out, wrote, idx >>
       ELSE IF Faulty(Cur, "copyManifest")
            THEN Throw("EIO") /\ UNCHANGED << out, wrote, idx >>
            ELSE /\ WriteOut(Cur, << "manifest.json" >>, ManifestData(Cur))
                 /\ pc' = "read"
                 /\ idx' = 1
                 /\ UNCHANGED << exitCode, err, failedAt, log >>
    /\ UNCHANGED << world, argv, target, todo, work, started, completed, before,
                    builtEver >>

(***************************************************************************)
(* processJsFile(filename, platform), one action per awaited step.         *)
(***************************************************************************)
InputOf(km) == apiTransform(km[1], env.jsText[km[2]])

\* a minifier that accepts every text
minifyNeverFails(code) == FALSE

\* terser reports an error on this text
minifyFails(code) == \E km \in env.minifyErr : code = InputOf(km)

\* the obfuscator throws on this text
obfuscateFails(code) == \E km \in env.obfErr : code = terserMinify(InputOf(km))

\* a reader that takes an absent module for an empty one
readFileLenient(name) ==
    [ found |-> TRUE,
      text  |-> IF name \in env.jsMissing THEN << >> ELSE env.jsText[name] ]

\* fs.readFile(path.join(CONFIG.sourceDir, 'js', filename), 'utf8')
readFile(name) ==
    [ found |-> name \notin env.jsMissing, text |-> env.jsText[name] ]

ReadModule ==
    /\ pc = "read"
    /\ IF ~readFile(jsFiles[idx]).found
       THEN Throw("ENOENT") /\ UNCHANGED sourceCode
       ELSE /\ sourceCode' = apiTransform(Cur, readFile(jsFiles[idx]).text)
            /\ pc' = "minify"
            /\ UNCHANGED << exitCode, err, failedAt, log >>
    /\ UNCHANGED << world, out, argv, target, todo, idx, minified, obfuscated,
                    history >>

MinifyModule ==
    /\ pc = "minify"
    /\ IF minifyFails(sourceCode)
       THEN Throw("MinifyError") /\ UNCHANGED minified
       ELSE /\ minified' = terserMinify(sourceCode)
            /\ pc' = "obfuscate"
            /\ UNCHANGED << exitCode, err, failedAt, log >>
    /\ UNCHANGED << world, out, argv, target, todo, idx, sourceCode, obfuscated,
                    history >>

\* a second pass that is handed the text as it was before minification
ObfuscateSource ==
    /\ pc = "obfuscate"
    /\ IF obfuscateFails(minified)
       THEN Throw("ObfuscationError") /\ UNCHANGED obfuscated
       ELSE /\ obfuscated' = obfuscate(sourceCode)
            /\ pc' = "write"
            /\ UNCHANGED << exitCode, err, failedAt, log >>
    /\ UNCHANGED << world, out, argv, target, todo, idx, sourceCode, minified,
                    history >>

ObfuscateModule ==
    /\ pc = "obfuscate"
    /\ IF obfuscateFails(minified)
       THEN Throw("ObfuscationError") /\ UNCHANGED obfuscated
       ELSE /\ obfuscated' = obfuscate(minified)
            /\ pc' = "write"
            /\ UNCHANGED << exitCode, err, failedAt, log >>
    /\ UNCHANGED << world, out, argv, target, todo, idx, sourceCode, minified,
                    history >>

\* a write that is left pending while the loop moves on to the next module
WriteModuleDeferred ==
    /\ pc = "write"
    /\ IF idx < Len(jsFiles)
       THEN idx' = idx + 1 /\ pc' = "read"
       ELSE idx' = 1 /\ pc' = "css"
    /\ UNCHANGED << world, out, argv, target, todo, work, exitCode, err, failedAt, log,
                    history >>

WriteModule ==
    /\ pc = "write"
    /\ IF Faulty(Cur, "writeJs")
       THEN Throw("EIO") /\ UNCHANGED << out, wrote, idx, work >>
       ELSE /\ WriteOut(Cur, << jsFiles[idx] >>, obfuscated)
            /\ sourceCode' = << >>
            /\ minified' = << >>
            /\ obfuscated' = << >>
            /\ IF idx < Len(jsFiles)
               THEN idx' = idx + 1 /\ pc' = "read"
               ELSE idx' = 1 /\ pc' = "css"
            /\ UNCHANGED << exitCode, err, failedAt, log >>
    /\ UNCHANGED << world, argv, target, todo, started, completed, before,
                    builtEver >>

(***************************************************************************)
(* buildPlatform, steps 4 to 7.                                            *)
(***************************************************************************)
\* a copy step whose catch skips an absent file only and rethrows the rest
CopyOptionalStrict(here, next, files, present, point) ==
    /\ pc = here
    /\ IF present /\ Faulty(Cur, point)
       THEN Throw("EIO") /\ UNCHANGED << out, wrote, idx >>
       ELSE /\ IF present
               THEN /\ WriteOut(Cur, << files[idx] >>, << "source of " \o files[idx] >>)
                    /\ log' = log \cup { << "copied", Cur, files[idx] >> }
               ELSE /\ log' = log \cup { << "skipped", Cur, files[idx] >> }
                    /\ UNCHANGED << out, wrote >>
            /\ IF idx < Len(files)
               THEN idx' = idx + 1 /\ pc' = here
               ELSE idx' = 1 /\ pc' = next
            /\ UNCHANGED << exitCode, err, failedAt >>
    /\ UNCHANGED << world, argv, target, todo, work, started, completed, before,
                    builtEver >>

\* try { copyFile } catch { log "Skipped" } for one style or markup file
CopyOptional(here, next, files, present, point) ==
    /\ pc = here
    /\ IF present /\ ~Faulty(Cur, point)
       THEN /\ WriteOut(Cur, << files[idx] >>, << "source of " \o files[idx] >>)
            /\ log' = log \cup { << "copied", Cur, files[idx] >> }
       ELSE /\ log' = log \cup { << "skipped", Cur, files[idx] >> }
            /\ UNCHANGED << out, wrote >>
    /\ IF idx < Len(files)
       THEN idx' = idx + 1 /\ pc' = here
       ELSE idx' = 1 /\ pc' = next
    /\ UNCHANGED << world, argv, target, todo, work, exitCode, err, failedAt, started,
                    completed, before, builtEver >>

\* a style step that goes straight on to the release document
CopyCssThenReadme == CopyOptional("css", "readme", cssFiles, env.css, "copyCss")

CopyCss == CopyOptional("css", "html", cssFiles, env.css, "copyCss")

CopyHtml == CopyOptional("html", "dirs", htmlFiles, env.html, "copyHtml")

\* what copyDir(src, dest) has created when it returns or throws
copyDir(key, dir) ==
    IF env.icons.exists /\ ~Faulty(key, "copyDir")
    THEN copyDirEntries(env.icons.entries, << dir >>)
    ELSE { Dir(<< dir >>) }

\* try { copyDir } catch { log "Skipped" } for one asset directory
CopyDirs ==
    /\ pc = "dirs"
    /\ LET dir == copyDirs[idx]
           new == copyDir(Cur, dir)
       IN  /\ out' = [ out EXCEPT ![Cur].entries = Overlay(@, new) ]
           /\ wrote' = [ wrote EXCEPT ![Cur] = @ \cup Paths(new) ]
           /\ log' = log \cup
                { << IF env.icons.exists /\ ~Faulty(Cur, "copyDir")
                     THEN "copied" ELSE "skipped", Cur, dir >> }
    /\ IF idx < Len(copyDirs)
       THEN idx' = idx + 1 /\ pc' = "dirs"
       ELSE idx' = 1 /\ pc' = "readme"
    /\ UNCHANGED << world, argv, target, todo, work, exitCode, err, failedAt, started,
                    completed, before, builtEver >>

DefaultVersion == "1.0.0"

\* a generator that never looks at package.json
resolveVersionDefault(pkg) == DefaultVersion

\* generateReleaseReadme: the version read from package.json. readFile,
\* JSON.parse and null.version throw into the empty catch; an undefined or
\* empty version is falsy, and || puts the default in its place
resolveVersion(pkg) ==
    IF pkg.state # "parsed" THEN DefaultVersion
    ELSE IF ~pkg.hasVersion THEN DefaultVersion
    ELSE IF pkg.version = "" THEN DefaultVersion
    ELSE pkg.version

readmeContent(key, version, day) ==
    << "README " \o PLATFORMS[key].name, "Version " \o version, "Built on",
       ToString(day) >>

\* generateReleaseReadme, then the return of buildPlatform to build()
GenerateReadme ==
    /\ pc = "readme"
    /\ IF Faulty(Cur, "writeReadme")
       THEN Throw("EIO") /\ UNCHANGED << out, wrote, completed, todo >>
       ELSE /\ WriteOut(Cur, << "README.md" >>,
                        readmeContent(Cur, resolveVersion(env.pkg), today))
            /\ completed' = completed \cup { Cur }
            /\ todo' = Tail(todo)
            /\ pc' = IF Tail(todo) = << >> THEN "summary" ELSE "enter"
            /\ UNCHANGED << exitCode, err, failedAt, log >>
    /\ UNCHANGED << world, argv, target, idx, work, started, before, builtEver >>

(***************************************************************************)
(* build(): the end of the invocation.                                     *)
(***************************************************************************)
Summary ==
    /\ pc = "summary"
    /\ log' = log \cup { << "summary", "chrome_release", "firefox_release" >> }
    /\ exitCode' = 0
    /\ pc' = "exiting"
    /\ UNCHANGED << world, out, argv, target, todo, idx, work, err, failedAt, history >>

\* the process is gone; only the file system remains
Exit ==
    /\ pc = "exiting"
    /\ pc' = "idle"
    /\ builtEver' = builtEver \cup { started[i] : i \in 1..Len(started) }
    /\ argv' = NoArgs
    /\ target' = << >>
    /\ todo' = << >>
    /\ idx' = 1
    /\ exitCode' = -1
    /\ err' = "none"
    /\ failedAt' = "none"
    /\ log' = {}
    /\ started' = << >>
    /\ completed' = {}
    /\ before' = [ k \in PlatformKeys |-> NoDir ]
    /\ wrote' = [ k \in PlatformKeys |-> {} ]
    /\ sourceCode' = << >>
    /\ minified' = << >>
    /\ obfuscated' = << >>
    /\ UNCHANGED << world, out >>

\* midnight passes between two invocations
Tick ==
    /\ pc = "idle"
    /\ today < MaxDay
    /\ today' = today + 1
    /\ UNCHANGED << env, walk, out, runs, pc, argv, target, todo, idx, work, exitCode,
                    err, failedAt, log, history >>

Step ==
    \/ Main
    \/ EnterPlatform
    \/ RemoveDir
    \/ EnsureDir
    \/ CopyManifest
    \/ ReadModule
    \/ MinifyModule
    \/ ObfuscateModule
    \/ WriteModule
    \/ CopyCss
    \/ CopyHtml
    \/ CopyDirs
    \/ GenerateReadme
    \/ Summary
    \/ Exit

Next == Invoke \/ Tick \/ Step

Spec == Init /\ [][Next]_vars

\* a started invocation runs on: node runs the awaited chain to its end
FairSpec == InitFair /\ [][Next]_vars /\ WF_vars(Step)

(***************************************************************************)
(* buildPlatform(platformKey) called with any key, registered or not:      *)
(* build() itself only ever passes 'chrome' and 'firefox'.                 *)
(***************************************************************************)
UnregisteredKeys == { "edge" } \cup ProtoKeys

CallKeys == PlatformKeys \cup UnregisteredKeys

CallStarts ==
    { [ envs |-> { DefaultEnv }, priors |-> { NoDir, StaleDir } ],
      [ envs |-> EnvFaults,      priors |-> { StaleDir } ] }

InitCall == InitFrom(CallStarts)

CallBuildPlatform ==
    /\ pc = "idle"
    /\ runs < MaxRuns
    /\ \E key \in CallKeys : todo' = << key >>
    /\ runs' = runs + 1
    /\ pc' = "enter"
    /\ UNCHANGED << env, walk, out, today, argv, target, idx, work, exitCode, err, failedAt, log,
                    history >>

BuildSteps ==
    \/ EnterPlatform
    \/ RemoveDir
    \/ EnsureDir
    \/ CopyManifest
    \/ ReadModule
    \/ MinifyModule
    \/ ObfuscateModule
    \/ WriteModule
    \/ CopyCss
    \/ CopyHtml
    \/ CopyDirs
    \/ GenerateReadme
    \/ Summary
    \/ Exit

NextCall == CallBuildPlatform \/ Tick \/ BuildSteps

SpecCall == InitCall /\ [][NextCall]_vars

(***************************************************************************)
(* copyDir(src, dest), one action per awaited call, with the recursion     *)
(* kept as a stack of frames. Paths are relative to src and to dest.       *)
(***************************************************************************)
Candidates ==
    { Dir(<< "a" >>), File(<< "b" >>, << "x" >>), Dir(<< "c" >>),
      Dir(<< "a", "a" >>), File(<< "a", "b" >>, << "y" >>),
      File(<< "a", "a", "b" >>, << "z" >>) }

Parent(path) == SubSeq(path, 1, Len(path) - 1)

\* every entry below the top level lies in a directory of the tree
Trees ==
    { t \in SUBSET Candidates :
        /\ Cardinality(t) <= MaxEntries
        /\ \A e \in t : Len(e.path) > 1 => Dir(Parent(e.path)) \in t }

DirPaths(tree) == { << >> } \cup { e.path : e \in { x \in tree : x.kind = "dir" } }

\* what is at dest before the call: nothing, or a directory with a file
\* of its own and an older copy of b
DestBefore ==
    { {},
      { Dir(<< >>), File(<< "kept" >>, << "k" >>), File(<< "b" >>, << "old" >>) } }

Walks ==
    { [ status |-> "idle", srcExists |-> x, src |-> IF x THEN t ELSE {},
        unreadable |-> IF x THEN u ELSE {}, dest0 |-> d, dest |-> d, stack |-> << >> ] :
        x \in BOOLEAN, t \in Trees, d \in DestBefore,
        u \in { {} } \cup { { q } : q \in { << >>, << "a" >>, << "a", "a" >>, << "c" >> } } }

InitCopy ==
    /\ InitBuild({ [ envs |-> { DefaultEnv }, priors |-> { NoDir } ] })
    /\ walk \in { w \in Walks : w.unreadable \subseteq DirPaths(w.src) }

Frame(dir) == [ dir |-> dir, phase |-> "mkdir", left |-> {} ]

Top == walk.stack[Len(walk.stack)]

SetTop(f) == [ walk.stack EXCEPT ![Len(walk.stack)] = f ]

\* the names readdir returns for the directory dir of the source
Names(dir) ==
    { e.path[Len(e.path)] :
        e \in { x \in walk.src : Len(x.path) = Len(dir) + 1 /\ Parent(x.path) = dir } }

EntryAt(path) == CHOOSE e \in walk.src : e.path = path

CallCopyDir ==
    /\ walk.status = "idle"
    /\ walk \in Walks
    /\ walk' = [ walk EXCEPT !.status = "running", !.stack = << Frame(<< >>) >> ]
    /\ UNCHANGED << env, out, today, runs, pc, argv, target, todo, idx, work, exitCode,
                    err, failedAt, log, history >>

\* await fs.mkdir(dest, { recursive: true })
MkdirDest ==
    /\ walk.status = "running"
    /\ Top.phase = "mkdir"
    /\ walk' = [ walk EXCEPT !.dest = @ \cup { Dir(Top.dir) },
                              !.stack = SetTop([ Top EXCEPT !.phase = "readdir" ]) ]
    /\ UNCHANGED << env, out, today, runs, pc, argv, target, todo, idx, work, exitCode,
                    err, failedAt, log, history >>

\* await fs.readdir(src, { withFileTypes: true }): it rejects when src is not
\* there or may not be read, and nothing in copyDir catches that
Readdir ==
    /\ walk.status = "running"
    /\ Top.phase = "readdir"
    /\ IF ~walk.srcExists \/ Top.dir \in walk.unreadable
       THEN walk' = [ walk EXCEPT !.status = "threw", !.stack = << >> ]
       ELSE walk' = [ walk EXCEPT
                        !.stack = SetTop([ Top EXCEPT !.phase = "loop",
                                                      !.left = Names(Top.dir) ]) ]
    /\ UNCHANGED << env, out, today, runs, pc, argv, target, todo, idx, work, exitCode,
                    err, failedAt, log, history >>

\* a loop body that creates a subdirectory and does not descend into it
CopyEntryShallow ==
    /\ walk.status = "running"
    /\ Top.phase = "loop"
    /\ \E n \in Top.left :
        LET e == EntryAt(Top.dir \o << n >>)
            rest == SetTop([ Top EXCEPT !.left = @ \ { n } ])
        IN  walk' = [ walk EXCEPT !.dest = Overlay(@, { e }), !.stack = rest ]
    /\ UNCHANGED << env, out, today, runs, pc, argv, target, todo, idx, work, exitCode,
                    err, failedAt, log, history >>

\* one iteration of for (const entry of entries), in the order readdir gave
CopyEntry ==
    /\ walk.status = "running"
    /\ Top.phase = "loop"
    /\ \E n \in Top.left :
        LET e == EntryAt(Top.dir \o << n >>)
            rest == SetTop([ Top EXCEPT !.left = @ \ { n } ])
        IN  IF e.kind = "dir"
            THEN walk' = [ walk EXCEPT !.stack = Append(rest, Frame(e.path)) ]
            ELSE walk' = [ walk EXCEPT !.dest = Overlay(@, { File(e.path, e.data) }),
                                       !.stack = rest ]
    /\ UNCHANGED << env, out, today, runs, pc, argv, target, todo, idx, work, exitCode,
                    err, failedAt, log, history >>

\* the loop is over: this call of copyDir returns to the one that awaits it
ReturnCopy ==
    /\ walk.status = "running"
    /\ Top.phase = "loop"
    /\ Top.left = {}
    /\ LET popped == SubSeq(walk.stack, 1, Len(walk.stack) - 1)
       IN  walk' = [ walk EXCEPT !.stack = popped,
                                 !.status = IF popped = << >> THEN "returned" ELSE @ ]
    /\ UNCHANGED << env, out, today, runs, pc, argv, target, todo, idx, work, exitCode,
                    err, failedAt, log, history >>

CopySteps == MkdirDest \/ Readdir \/ CopyEntry \/ ReturnCopy

NextCopy == CallCopyDir \/ CopySteps

\* an awaited fs call settles, so a started copyDir keeps taking steps
SpecCopy == InitCopy /\ [][NextCopy]_vars /\ WF_vars(CopySteps)

TypeOK ==
    /\ pc \in { "idle", "main", "enter", "rm", "ensure", "manifest", "read",
                "minify", "obfuscate", "write", "css", "html", "dirs", "readme",
                "summary", "exiting" }
    /\ exitCode \in { -1, 0, 1 }
    /\ runs \in 0..MaxRuns
    /\ today \in 1..MaxDay

(***************************************************************************)
(* Vocabulary of the properties.                                           *)
(***************************************************************************)
Range(seq) == { seq[i] : i \in 1..Len(seq) }

BuildPcs ==
    { "rm", "ensure", "manifest", "read", "minify", "obfuscate", "write", "css",
      "html", "dirs", "readme" }

\* buildPlatform(k) threw, and the invocation is about to exit
Failed(k) == pc = "exiting" /\ exitCode = 1 /\ todo # << >> /\ Head(todo) = k

\* buildPlatform(k) of this invocation has returned or thrown
Finished(k) == k \in completed \/ Failed(k)

ModulePaths == { << m >> : m \in ModuleNames }

\* the error came out of processJsFile
ModuleFailure ==
    \/ err \in { "MinifyError", "ObfuscationError" }
    \/ err = "ENOENT" /\ Head(todo) \in env.manifests
    \/ err = "EIO" /\ Faulty(Head(todo), "writeJs")

FilesOf(d) == { e \in d.entries : e.kind = "file" }

(***************************************************************************)
(* C1. Clean-then-populate: once buildPlatform(P) has finished, the        *)
(* release directory of P holds no file that was there before the build    *)
(* and was not written by this build.                                      *)
(***************************************************************************)
C1_CleanThenPopulate ==
    \A k \in PlatformKeys :
        Finished(k) =>
            \A e \in FilesOf(out[k]) :
                e.path \in Paths(before[k].entries) => e.path \in wrote[k]

\* C1 holds of every build whose removal of the release directory succeeds
C1_HoldsWhenRmSucceeds ==
    \A k \in PlatformKeys :
        (Finished(k) /\ ~Faulty(k, "rm")) =>
            \A e \in FilesOf(out[k]) :
                e.path \in Paths(before[k].entries) => e.path \in wrote[k]

(***************************************************************************)
(* C2. As claimed: when a configured module is absent from src/js, a       *)
(* finished buildPlatform(P) has failed with a not-found error and has     *)
(* written no module file at all.                                          *)
(***************************************************************************)
C2_ZeroModulesWritten ==
    \A k \in PlatformKeys :
        (Finished(k) /\ env.jsMissing # {}) =>
            /\ Failed(k)
            /\ err = "ENOENT"
            /\ wrote[k] \cap ModulePaths = {}

FirstMissing == CHOOSE i \in 1..Len(jsFiles) :
                    /\ jsFiles[i] \in env.jsMissing
                    /\ \A j \in 1..(i - 1) : jsFiles[j] \notin env.jsMissing

\* no step before the read of the first absent module can fail for k
ReachesModules(k) ==
    /\ k \in env.manifests
    /\ \A p \in FaultPoints \ { "rm" } : ~Faulty(k, p)
    /\ \A m \in ModuleNames : << k, m >> \notin env.minifyErr \cup env.obfErr

(***************************************************************************)
(* C2, amended. When a configured module is absent, buildPlatform(P)       *)
(* never completes and writes no file for the first absent module or any   *)
(* module configured after it; when no earlier step fails it fails with a  *)
(* not-found error at that module, and every module configured before it   *)
(* has been written, protected, to the release directory.                  *)
(***************************************************************************)
C2_AbortsAtFirstMissing ==
    \A k \in PlatformKeys :
        (Finished(k) /\ env.jsMissing # {}) =>
            /\ Failed(k)
            /\ \A j \in FirstMissing..Len(jsFiles) : << jsFiles[j] >> \notin wrote[k]
            /\ ReachesModules(k) =>
                /\ err = "ENOENT"
                /\ idx = FirstMissing
                /\ \A j \in 1..(FirstMissing - 1) :
                    /\ << jsFiles[j] >> \in wrote[k]
                    /\ HasFile(out[k], << jsFiles[j] >>)
                    /\ DataOf(out[k], << jsFiles[j] >>)
                         = obfuscate(terserMinify(apiTransform(k, env.jsText[jsFiles[j]])))

C2_Witness ==
    /\ Failed("firefox")
    /\ env.jsMissing = { "injected.js" }
    /\ err = "ENOENT"
    /\ wrote["firefox"] \cap ModulePaths = { << "background.js" >>, << "content.js" >> }

(***************************************************************************)
(* C3. As claimed: when both platforms are selected and the build of one   *)
(* fails while processing a module, the other platform is still built.     *)
(***************************************************************************)
C3_FailureIsolated ==
    (pc = "exiting" /\ Len(buildOrder(target)) = 2 /\ exitCode = 1 /\ ModuleFailure) =>
        \A k \in Range(buildOrder(target)) \ { Head(todo) } :
            /\ k \in Range(started)
            /\ Finished(k)

(***************************************************************************)
(* C4. As claimed: an argument that, lower-cased, is none of chrome, ch,   *)
(* firefox, ff, all, both makes the process exit non-zero before any       *)
(* build step.                                                             *)
(***************************************************************************)
UnknownArg == Len(argv) > 0 /\ toLowerCase(argv[1]) \notin KnownArgs

C4_UnknownSelectorRejected ==
    (UnknownArg /\ pc \notin { "idle", "main" }) =>
        /\ pc = "exiting"
        /\ exitCode = 1
        /\ started = << >>
        /\ \A k \in PlatformKeys : wrote[k] = {}

\* C4 holds of every argument that is not the empty string
C4_NonEmptyUnknownRejected ==
    (UnknownArg /\ argv[1] # << >> /\ pc \notin { "idle", "main" }) =>
        /\ pc = "exiting"
        /\ exitCode = 1
        /\ started = << >>
        /\ \A k \in PlatformKeys : wrote[k] = {}

(***************************************************************************)
(* C5. As claimed: when an optional asset (the style file, the markup     *)
(* file, the asset directory) is absent from the source tree and the       *)
(* required inputs are there, buildPlatform(P) completes, has logged a     *)
(* skip for the asset, has written every other configured artifact, and    *)
(* its release directory has no entry, file or directory, for the asset.   *)
(***************************************************************************)
NoEntry(d, path) == \A e \in d.entries : e.path # path

SomeAssetAbsent == ~env.css \/ ~env.html \/ ~env.icons.exists

\* nothing but an absent optional asset stands in the way of the build of k
RequiredInputsOk(k) == ReachesModules(k) /\ env.jsMissing = {}

C5_MissingAssetOmitted ==
    \A k \in PlatformKeys :
        (Finished(k) /\ SomeAssetAbsent /\ RequiredInputsOk(k)) =>
            /\ k \in completed
            /\ HasFile(out[k], << "manifest.json" >>)
            /\ HasFile(out[k], << "README.md" >>)
            /\ \A m \in ModuleNames : HasFile(out[k], << m >>)
            /\ IF env.css
               THEN HasFile(out[k], << cssFiles[1] >>)
               ELSE /\ << "skipped", k, cssFiles[1] >> \in log
                    /\ NoEntry(out[k], << cssFiles[1] >>)
            /\ IF env.html
               THEN HasFile(out[k], << htmlFiles[1] >>)
               ELSE /\ << "skipped", k, htmlFiles[1] >> \in log
                    /\ NoEntry(out[k], << htmlFiles[1] >>)
            /\ IF env.icons.exists
               THEN \A e \in copyDirEntries(env.icons.entries, << copyDirs[1] >>) :
                        e \in out[k].entries
               ELSE /\ << "skipped", k, copyDirs[1] >> \in log
                    /\ NoEntry(out[k], << copyDirs[1] >>)

\* C5 holds of the style and the markup file
C5_MissingFileOmitted ==
    \A k \in PlatformKeys :
        (Finished(k) /\ RequiredInputsOk(k)) =>
            /\ k \in completed
            /\ ~env.css =>
                /\ << "skipped", k, cssFiles[1] >> \in log
                /\ ~Faulty(k, "rm") => NoEntry(out[k], << cssFiles[1] >>)
            /\ ~env.html =>
                /\ << "skipped", k, htmlFiles[1] >> \in log
                /\ ~Faulty(k, "rm") => NoEntry(out[k], << htmlFiles[1] >>)

(***************************************************************************)
(* C6. Idempotence: when buildPlatform(P) has run before against the same  *)
(* source tree, a further run leaves the release directory of P as the     *)
(* run before left it: the same entries with the same content, the         *)
(* content of README.md (its date) apart.                                  *)
(***************************************************************************)
Strip(d) ==
    [ exists  |-> d.exists,
      entries |-> { IF e.path = << "README.md" >> THEN [ e EXCEPT !.data = << >> ] ELSE e :
                      e \in d.entries } ]

C6_Idempotent ==
    \A k \in PlatformKeys :
        (Finished(k) /\ k \in builtEver) => Strip(out[k]) = Strip(before[k])

C6_Witness ==
    /\ "chrome" \in completed
    /\ "chrome" \in builtEver
    /\ HasFile(before["chrome"], << "README.md" >>)
    /\ out["chrome"] # before["chrome"]
    /\ wrote["chrome"] \cap ModulePaths = ModulePaths

(***************************************************************************)
(* C7. The Firefox transform returns the shim followed by the text with    *)
(* every occurrence of "chrome." replaced by "browser.", and nothing else  *)
(* changed; a text without the token comes back unchanged after the shim.  *)
(***************************************************************************)
OccursAt(t, i) ==
    \A j \in 1..Len(LegacyToken) :
        i + j - 1 <= Len(t) /\ t[i + j - 1] = LegacyToken[j]

Occurrences(t) == { i \in 1..Len(t) : OccursAt(t, i) }

\* r is t with every occurrence replaced: each occurrence lengthens by one
IsRewriteOf(r, t) ==
    LET occ == Occurrences(t)
        shift(i) == Cardinality({ j \in occ : j < i })
        inside(i) == \E j \in occ : j <= i /\ i < j + Len(LegacyToken)
    IN  /\ Len(r) = Len(t) + Cardinality(occ)
        /\ \A j \in occ :
             SubSeq(r, j + shift(j), j + shift(j) + Len(ModernToken) - 1) = ModernToken
        /\ \A i \in 1..Len(t) : ~inside(i) => r[i + shift(i)] = t[i]
        /\ occ = {} => r = t

C7_FirefoxTransform ==
    (pc = "minify" /\ Cur = "firefox") =>
        LET t == env.jsText[jsFiles[idx]]
            n == Len(polyfill)
        IN  /\ Len(sourceCode) >= n
            /\ SubSeq(sourceCode, 1, n) = polyfill
            /\ IsRewriteOf(SubSeq(sourceCode, n + 1, Len(sourceCode)), t)

C7_Witness ==
    /\ pc = "minify"
    /\ Cur = "firefox"
    /\ env.jsText[jsFiles[idx]] = LegacyToken \o LegacyToken
    /\ sourceCode = polyfill \o ModernToken \o ModernToken

(***************************************************************************)
(* C8. With selector all or both, or no argument, both manifests and all   *)
(* modules present and no step failing, the invocation eventually exits    *)
(* with status zero, and both release directories then hold manifest.json, *)
(* one protected file per configured module under its own name, and        *)
(* README.md.                                                              *)
(***************************************************************************)
NoStepFaults ==
    /\ env.manifests = PlatformKeys
    /\ env.jsMissing = {}
    /\ env.faults = {}
    /\ env.minifyErr = {}
    /\ env.obfErr = {}

BundleComplete(k) ==
    /\ out[k].exists
    /\ HasFile(out[k], << "manifest.json" >>)
    /\ HasFile(out[k], << "README.md" >>)
    /\ \A m \in ModuleNames :
        /\ HasFile(out[k], << m >>)
        /\ DataOf(out[k], << m >>) = obfuscate(terserMinify(apiTransform(k, env.jsText[m])))

BuildsAll == argv = NoArgs \/ argv = << sAll >> \/ argv = << sBoth >>

C8_AllSucceeds ==
    (pc = "main" /\ BuildsAll /\ NoStepFaults)
        ~> (pc = "exiting" /\ exitCode = 0 /\ \A k \in PlatformKeys : BundleComplete(k))

C8_Witness ==
    /\ pc = "exiting"
    /\ exitCode = 0
    /\ argv = << sBoth >>
    /\ NoStepFaults
    /\ \A k \in PlatformKeys : BundleComplete(k)

(***************************************************************************)
(* C9. As claimed: the selector decides exactly which platforms are        *)
(* built: chrome or ch Chrome only, firefox or ff Firefox only, all, both  *)
(* or no argument both of them.                                            *)
(***************************************************************************)
SelectedBy(args) ==
    IF args = << sChrome >> \/ args = << sCh >> THEN { "chrome" }
    ELSE IF args = << sFirefox >> \/ args = << sFf >> THEN { "firefox" }
    ELSE PlatformKeys

Selects(args) == args = NoArgs \/ (Len(args) > 0 /\ args[1] \in KnownArgs)

C9_SelectorDecides ==
    (pc = "exiting" /\ Selects(argv)) => Range(started) = SelectedBy(argv)

\* C9 holds of what is entered, and of every invocation that exits with 0
C9_OnlySelectedEntered ==
    Selects(argv) =>
        /\ Range(started) \subseteq SelectedBy(argv)
        /\ (pc = "exiting" /\ exitCode = 0) => Range(started) = SelectedBy(argv)

(***************************************************************************)
(* C10. Platform builds never overlap: a build step is taken for the       *)
(* platform build() is currently building only, every other platform       *)
(* entered in this invocation has returned by then, Chrome is never built  *)
(* after Firefox was entered, and a step changes no release directory but  *)
(* the current platform's.                                                 *)
(***************************************************************************)
C10_NoOverlap ==
    [][ /\ pc \in BuildPcs =>
            /\ \A k \in Range(started) \ { Cur } : k \in completed
            /\ Cur \in Range(started)
            /\ Cur = "chrome" => "firefox" \notin Range(started)
        /\ \A k \in PlatformKeys :
            out'[k] # out[k] => (pc \in BuildPcs /\ k = Cur) ]_vars

C10_Witness ==
    /\ pc = "write"
    /\ Cur = "firefox"
    /\ started = << "chrome", "firefox" >>
    /\ "chrome" \in completed
    /\ BundleComplete("chrome")

(***************************************************************************)
(* C11. When the manifest source of P is absent, buildPlatform(P) fails    *)
(* at the manifest step with a not-found error (unless creating the        *)
(* release directory failed before it): nothing has been written, no       *)
(* module is in flight and no later step has run. When it is present and   *)
(* the step succeeds, manifest.json is the copy of P's own manifest.       *)
(***************************************************************************)
\* ensureDir throws in the build of k: the directory is gone and mkdir fails
EnsureFails(k) == Faulty(k, "mkdir") /\ ~(Faulty(k, "rm") /\ before[k].exists)

OwnManifest(k) ==
    << "manifest of " \o (IF k = "chrome" THEN "chrome.json" ELSE "firefox.json") >>

C11_ManifestStep ==
    \A k \in PlatformKeys :
        Finished(k) =>
            /\ k \notin env.manifests =>
                /\ Failed(k)
                /\ wrote[k] = {}
                /\ work = << << >>, << >>, << >> >>
                /\ ~EnsureFails(k) => (failedAt = "manifest" /\ err = "ENOENT")
            /\ << "manifest.json" >> \in wrote[k] =>
                /\ k \in env.manifests
                /\ HasFile(out[k], << "manifest.json" >>)
                /\ DataOf(out[k], << "manifest.json" >>) = OwnManifest(k)
            /\ (k \in env.manifests /\ failedAt \notin { "ensure", "manifest" }) =>
                << "manifest.json" >> \in wrote[k]

C11_Witness ==
    /\ Failed("firefox")
    /\ "firefox" \notin env.manifests
    /\ failedAt = "manifest"
    /\ wrote["firefox"] = {}
    /\ "chrome" \in completed
    /\ DataOf(out["chrome"], << "manifest.json" >>) = OwnManifest("chrome")

(***************************************************************************)
(* C12. buildPlatform called with a key that is not in the registry fails  *)
(* with an error that reaches its caller: it never gets to the manifest    *)
(* step, no release directory is removed, created or written to, and the   *)
(* call is never counted as completed. A key the lookup does not resolve   *)
(* at all fails at the entry of buildPlatform, before any call to fs.      *)
(***************************************************************************)
UnknownKey == todo # << >> /\ Head(todo) \notin PlatformKeys

C12_UnknownKeyRejected ==
    [][ UnknownKey =>
            /\ pc \in { "enter", "rm", "ensure", "exiting" }
            /\ Head(todo) \notin ProtoKeys => pc \in { "enter", "exiting" }
            /\ out' = out
            /\ wrote' = wrote
            /\ completed' = completed
            /\ pc' \in { "rm", "ensure", "exiting", "idle" }
            /\ pc' = "idle" => pc = "exiting"
            /\ pc' = "exiting" => (exitCode' = 1 /\ err' = "TypeError") ]_vars

C12_Witness ==
    /\ pc = "exiting"
    /\ todo = << "edge" >>
    /\ exitCode = 1
    /\ err = "TypeError"
    /\ failedAt = "enter"
    /\ out["firefox"] = StaleDir
    /\ "chrome" \in builtEver
    /\ BundleComplete("chrome")

(***************************************************************************)
(* C13. As claimed: removeDir returns normally and changes nothing when    *)
(* the directory does not exist, removes it with all its contents when it  *)
(* exists, and when the removal fails for another reason the failure       *)
(* reaches the caller: removeDir never returns normally with the           *)
(* directory still there.                                                  *)
(***************************************************************************)
RmUnexpectedFailure == Faulty(Cur, "rm") /\ out[Cur].exists

C13_RemoveDirSurfacesFailure ==
    [][ pc = "rm" =>
            /\ \A k \in PlatformKeys \ { Cur } : out'[k] = out[k]
            /\ IF RmUnexpectedFailure
               THEN pc' = "exiting" /\ exitCode' = 1 /\ out'[Cur] = out[Cur]
               ELSE pc' = "ensure" /\ out'[Cur] = NoDir ]_vars

\* C13 holds of every removal that meets no unexpected failure
C13_RemovesWhenRmSucceeds ==
    [][ (pc = "rm" /\ ~RmUnexpectedFailure) =>
            /\ \A k \in PlatformKeys \ { Cur } : out'[k] = out[k]
            /\ pc' = "ensure"
            /\ out'[Cur] = NoDir ]_vars

(***************************************************************************)
(* C14. As claimed: only the absence of an optional asset becomes a logged *)
(* skip. When the style file, the markup file or the asset directory is    *)
(* there and copying it fails, the build of the platform is aborted and    *)
(* the invocation exits non-zero: it does not complete.                    *)
(***************************************************************************)
CopyFailsFor(k) ==
    \/ env.css /\ Faulty(k, "copyCss")
    \/ env.html /\ Faulty(k, "copyHtml")
    \/ env.icons.exists /\ Faulty(k, "copyDir")

C14_OnlyAbsenceSkipped ==
    \A k \in PlatformKeys :
        /\ (Finished(k) /\ CopyFailsFor(k)) => Failed(k)
        /\ k \in completed =>
            /\ env.css => << "skipped", k, cssFiles[1] >> \notin log
            /\ env.html => << "skipped", k, htmlFiles[1] >> \notin log
            /\ env.icons.exists => << "skipped", k, copyDirs[1] >> \notin log

\* absence is a logged skip, and a copy that meets no failure is not skipped
C14_AbsenceSkipped ==
    \A k \in PlatformKeys :
        k \in completed =>
            /\ ~env.css => << "skipped", k, cssFiles[1] >> \in log
            /\ ~env.html => << "skipped", k, htmlFiles[1] >> \in log
            /\ ~env.icons.exists => << "skipped", k, copyDirs[1] >> \in log
            /\ ~CopyFailsFor(k) =>
                /\ env.css => << "skipped", k, cssFiles[1] >> \notin log
                /\ env.html => << "skipped", k, htmlFiles[1] >> \notin log
                /\ env.icons.exists => << "skipped", k, copyDirs[1] >> \notin log

(***************************************************************************)
(* C15. As claimed: resolving the version never fails the build, the       *)
(* release document carries the default version when the descriptor is     *)
(* absent, unreadable, not parsable or without a version field, and the    *)
(* value of the version field whenever the descriptor has one.             *)
(***************************************************************************)
HasVersionField == env.pkg.state = "parsed" /\ env.pkg.hasVersion

VersionLine(d) == DataOf(d, << "README.md" >>)[2]

C15_VersionFieldUsed ==
    [][ (pc = "readme" /\ ~Faulty(Cur, "writeReadme")) =>
            /\ Cur \in completed'
            /\ HasFile(out'[Cur], << "README.md" >>)
            /\ VersionLine(out'[Cur])
                 = "Version " \o (IF HasVersionField THEN env.pkg.version
                                                    ELSE DefaultVersion) ]_vars

(***************************************************************************)
(* C15, amended. Resolving the version never fails the build: whenever     *)
(* the write of README.md itself succeeds the document is written and the  *)
(* build of the platform completes. The document carries the value of the  *)
(* version field when the descriptor parses to an object whose version is  *)
(* not empty, and the default 1.0.0 in every other case, an empty version  *)
(* field included.                                                         *)
(***************************************************************************)
C15_VersionNeverFatal ==
    [][ (pc = "readme" /\ ~Faulty(Cur, "writeReadme")) =>
            /\ Cur \in completed'
            /\ pc' # "exiting"
            /\ HasFile(out'[Cur], << "README.md" >>)
            /\ VersionLine(out'[Cur])
                 = "Version " \o (IF HasVersionField /\ env.pkg.version # ""
                                  THEN env.pkg.version
                                  ELSE DefaultVersion) ]_vars

C15_Witness ==
    /\ "chrome" \in completed
    /\ env.pkg = Descriptor("")
    /\ VersionLine(out["chrome"]) = "Version 1.0.0"

(***************************************************************************)
(* C16. The exit status reflects the outcome. An invocation that exits     *)
(* with status zero has printed the summary, and then every platform it    *)
(* selected was built to completion and no error was reported; the summary *)
(* is printed in no other case. After a fatal failure the error is in the  *)
(* log, the status is one, and every file this invocation wrote is still   *)
(* in its release directory: neither the failure nor the exit changes the  *)
(* file system.                                                            *)
(***************************************************************************)
SummaryLine == << "summary", "chrome_release", "firefox_release" >>

WrittenKept ==
    \A k \in PlatformKeys : \A p \in wrote[k] : \E e \in out[k].entries : e.path = p

ExitReflectsOutcome ==
    /\ SummaryLine \in log =>
        /\ pc = "exiting"
        /\ exitCode = 0
    /\ pc = "exiting" =>
        /\ exitCode \in { 0, 1 }
        /\ exitCode = 0 =>
            /\ SummaryLine \in log
            /\ err = "none"
            /\ buildOrder(target) # << >>
            /\ completed = Range(buildOrder(target))
            /\ \A k \in completed : HasFile(out[k], << "README.md" >>)
        /\ exitCode = 1 =>
            /\ completed # PlatformKeys
            /\ Range(buildOrder(target)) \ completed # {} \/ buildOrder(target) = << >>
            /\ err # "none" => << "error", err >> \in log
            /\ err = "none" => << "unknown target", target >> \in log
            /\ WrittenKept

C16_ExitStatus ==
    [][ /\ ExitReflectsOutcome'
        /\ (pc' = "exiting" \/ pc = "exiting") => out' = out ]_vars

C16_Witness ==
    /\ pc = "exiting"
    /\ exitCode = 1
    /\ started = << "chrome", "firefox" >>
    /\ completed = { "chrome" }
    /\ BundleComplete("chrome")
    /\ failedAt = "obfuscate"
    /\ << "error", "ObfuscationError" >> \in log
    /\ wrote["firefox"] = { << "manifest.json" >>, << "background.js" >> }
    /\ HasFile(out["firefox"], << "background.js" >>)

(***************************************************************************)
(* C17. The steps of one platform build come in the fixed order clean,     *)
(* manifest, modules, assets, document, complete. Every step hands over to *)
(* the next one or to the failure exit and to nothing else; nothing is     *)
(* written before the release directory was removed and recreated; the     *)
(* manifest is written before any module is read; the modules are written  *)
(* one after the other in configured order, all of them before any style,  *)
(* markup or asset-directory copy is attempted; the document is written    *)
(* after all three copies were attempted, and a completed build has gone   *)
(* through every step.                                                     *)
(***************************************************************************)
Stage(p) ==
    CASE p = "rm" -> 1
      [] p = "ensure" -> 2
      [] p = "manifest" -> 3
      [] p \in { "read", "minify", "obfuscate", "write" } -> 4
      [] p = "css" -> 5
      [] p = "html" -> 6
      [] p = "dirs" -> 7
      [] p = "readme" -> 8
      [] OTHER -> 0

Attempted(k, name) == << "copied", k, name >> \in log \/ << "skipped", k, name >> \in log

\* what the build of k has done when it stands before the step of stage n,
\* the module loop at module i
DoneBefore(k, n, i) ==
    /\ (n <= 2) => wrote[k] = {}
    /\ (n >= 3) => out[k].exists
    /\ (n = 3 /\ ~Faulty(k, "rm")) => out[k] = EmptyDir
    /\ (<< "manifest.json" >> \in wrote[k]) <=> (n > 3)
    /\ \A j \in 1..Len(jsFiles) :
        (<< jsFiles[j] >> \in wrote[k]) <=> (n > 4 \/ (n = 4 /\ j < i))
    /\ Attempted(k, cssFiles[1]) <=> (n > 5)
    /\ Attempted(k, htmlFiles[1]) <=> (n > 6)
    /\ Attempted(k, copyDirs[1]) <=> (n > 7)
    /\ (<< cssFiles[1] >> \in wrote[k]) => (n > 5)
    /\ (<< htmlFiles[1] >> \in wrote[k]) => (n > 6)
    /\ (<< copyDirs[1] >> \in wrote[k]) => (n > 7)
    /\ (<< "README.md" >> \in wrote[k]) <=> (n > 8)

InOrder ==
    /\ pc \in BuildPcs => DoneBefore(Cur, Stage(pc), idx)
    /\ \A k \in completed : DoneBefore(k, 9, 1)

Successor ==
    CASE pc = "rm" -> pc' = "ensure"
      [] pc = "ensure" -> pc' \in { "manifest", "exiting" }
      [] pc = "manifest" -> pc' \in { "read", "exiting" } /\ (pc' = "read" => idx' = 1)
      [] pc = "read" -> pc' \in { "minify", "exiting" } /\ idx' = idx
      [] pc = "minify" -> pc' \in { "obfuscate", "exiting" } /\ idx' = idx
      [] pc = "obfuscate" -> pc' \in { "write", "exiting" } /\ idx' = idx
      [] pc = "write" ->
            \/ pc' = "exiting"
            \/ idx < Len(jsFiles) /\ pc' = "read" /\ idx' = idx + 1
            \/ idx = Len(jsFiles) /\ pc' = "css"
      [] pc = "css" -> pc' = "html"
      [] pc = "html" -> pc' = "dirs"
      [] pc = "dirs" -> pc' = "readme"
      [] pc = "readme" ->
            \/ pc' = "exiting" /\ completed' = completed
            \/ pc' \in { "enter", "summary" } /\ completed' = completed \cup { Cur }
      [] OTHER -> completed' \subseteq completed

ModuleSteps == { "read", "minify", "obfuscate", "write" }

SoftPoints == { "rm", "copyCss", "copyHtml", "copyDir" }

\* nothing but cleaning or an asset copy can go wrong in the build of k
OnlySoftFailures(k) ==
    /\ k \in env.manifests
    /\ env.jsMissing = {}
    /\ \A p \in FaultPoints \ SoftPoints : ~Faulty(k, p)
    /\ \A m \in ModuleNames : << k, m >> \notin env.minifyErr \cup env.obfErr

C18_SoftWitness ==
    /\ "firefox" \in completed
    /\ Faulty("firefox", "copyHtml")
    /\ << "skipped", "firefox", htmlFiles[1] >> \in log

(***************************************************************************)
(* C19. As claimed: when the write of README.md fails, the build of the    *)
(* platform is not aborted as failed: what was written stays in the        *)
(* release directory, the failure is reported, the platform counts as      *)
(* built and a following platform build is entered.                        *)
(***************************************************************************)
ReadmeWriteFails == pc = "readme" /\ Faulty(Cur, "writeReadme")

C19_ReadmeFailureNotFatal ==
    [][ ReadmeWriteFails =>
            /\ out' = out
            /\ wrote' = wrote
            /\ << "error", "EIO" >> \in log'
            /\ pc' # "exiting"
            /\ exitCode' # 1
            /\ Len(todo) > 1 => pc' = "enter" ]_vars

\* the files written before stay, the failure is reported, and it is fatal
C19_ReadmeFailureFatal ==
    [][ ReadmeWriteFails =>
            /\ out' = out
            /\ wrote' = wrote
            /\ << "error", "EIO" >> \in log'
            /\ pc' = "exiting"
            /\ exitCode' = 1
            /\ Cur \notin completed' ]_vars

(***************************************************************************)
(* C20. When the minifier rejects a module, the build of the platform      *)
(* aborts there with the minifier's error: the obfuscator is never given   *)
(* that module, no file is ever written for it or for a module configured  *)
(* after it, the release directory is as it was, and the build never       *)
(* completes.                                                              *)
(***************************************************************************)
Broken(k, m) == << k, m >> \in env.minifyErr

MinifyAborts ==
    /\ pc \in { "obfuscate", "write" } =>
        /\ ~Broken(Cur, jsFiles[idx])
        /\ ~minifyFails(sourceCode)
    /\ \A k \in PlatformKeys : \A j \in 1..Len(jsFiles) :
        Broken(k, jsFiles[j]) =>
            /\ k \notin completed
            /\ \A i \in j..Len(jsFiles) : << jsFiles[i] >> \notin wrote[k]
    /\ \A k \in PlatformKeys :
        (Failed(k) /\ failedAt = "minify") =>
            /\ err = "MinifyError"
            /\ << "error", "MinifyError" >> \in log
            /\ minifyFails(sourceCode)
            /\ minified = << >>
            /\ obfuscated = << >>

C20_MinifyFailureAborts ==
    [][ /\ MinifyAborts'
        /\ (pc = "minify" /\ Broken(Cur, jsFiles[idx])) =>
            /\ pc' = "exiting"
            /\ exitCode' = 1
            /\ err' = "MinifyError"
            /\ out' = out
            /\ wrote' = wrote
            /\ idx' = idx
            /\ obfuscated' = << >> ]_vars

C20_Witness ==
    /\ Failed("firefox")
    /\ failedAt = "minify"
    /\ err = "MinifyError"
    /\ idx = 2
    /\ Broken("firefox", jsFiles[2])
    /\ wrote["firefox"] = { << "manifest.json" >>, << jsFiles[1] >> }
    /\ obfuscated = << >>
    /\ "chrome" \in completed

(***************************************************************************)
(* C21. In a completed build of P the file of every configured module m    *)
(* is there under the name m and holds obfuscate(minify(transform_P(raw))) *)
(* of the text raw of m in the source tree. While a module is in flight    *)
(* the minifier is given the transformed text (on Firefox the shim         *)
(* included), the obfuscator is given the minifier's output, and what is   *)
(* written is the obfuscator's output; a build writes module files under   *)
(* configured module names only.                                           *)
(***************************************************************************)
Protected(k, m) == obfuscate(terserMinify(apiTransform(k, env.jsText[m])))

KnownOutputs ==
    { << "manifest.json" >>, << "README.md" >>, << cssFiles[1] >>, << htmlFiles[1] >> }
        \cup ModulePaths
        \cup Paths(copyDirEntries(env.icons.entries, << copyDirs[1] >>))
        \cup { << copyDirs[1] >> }

PipelineOrder ==
    /\ pc \in { "minify", "obfuscate", "write" } =>
          sourceCode = apiTransform(Cur, env.jsText[jsFiles[idx]])
    /\ (pc \in { "minify", "obfuscate", "write" } /\ Cur = "firefox") =>
          SubSeq(sourceCode, 1, Len(polyfill)) = polyfill
    /\ pc \in { "obfuscate", "write" } => minified = terserMinify(sourceCode)
    /\ pc = "write" => obfuscated = obfuscate(minified)

C21_ModuleContent ==
    /\ PipelineOrder
    /\ \A k \in PlatformKeys :
        /\ wrote[k] \subseteq KnownOutputs
        /\ \A m \in ModuleNames :
            << m >> \in wrote[k] =>
                /\ HasFile(out[k], << m >>)
                /\ DataOf(out[k], << m >>) = Protected(k, m)
        /\ k \in completed => \A m \in ModuleNames : << m >> \in wrote[k]

C21_Witness ==
    /\ pc = "exiting"
    /\ exitCode = 0
    /\ completed = PlatformKeys
    /\ env.jsText["background.js"] = LegacyToken
    /\ DataOf(out["firefox"], << "background.js" >>)
         = obfuscate(terserMinify(polyfill \o ModernToken))
    /\ DataOf(out["chrome"], << "background.js" >>)
         = obfuscate(terserMinify(LegacyToken))

(***************************************************************************)
(* C22. Within one platform build the modules are processed one at a time  *)
(* in configured order. The read of a module starts with nothing of        *)
(* another module pending: every module configured before it has been      *)
(* written, none after it has, and no text is held. The module loop moves  *)
(* to module i+1 only in the step that writes module i, and to the first   *)
(* module only from the manifest step; while a module is in flight the     *)
(* texts held are those of that module and of no other.                    *)
(***************************************************************************)
NothingHeld == work = << << >>, << >>, << >> >>

WrittenUpTo(k, n) ==
    \A j \in 1..Len(jsFiles) : (<< jsFiles[j] >> \in wrote[k]) <=> (j <= n)

OneInFlight ==
    /\ pc = "read" => (NothingHeld /\ WrittenUpTo(Cur, idx - 1))
    /\ pc \in { "minify", "obfuscate", "write" } =>
        /\ WrittenUpTo(Cur, idx - 1)
        /\ sourceCode = apiTransform(Cur, env.jsText[jsFiles[idx]])
        /\ minified \in { << >>, terserMinify(sourceCode) }
        /\ obfuscated \in { << >>, obfuscate(minified) }
    /\ pc \in { "css", "html", "dirs", "readme" } =>
        (NothingHeld /\ WrittenUpTo(Cur, Len(jsFiles)))

C22_Sequential ==
    [][ /\ OneInFlight'
        /\ pc' = "read" =>
            \/ pc = "manifest" /\ idx' = 1
            \/ /\ pc = "write"
               /\ idx' = idx + 1
               /\ << jsFiles[idx] >> \in wrote'[Cur]
               /\ HasFile(out'[Cur], << jsFiles[idx] >>)
        /\ (pc \in ModuleSteps /\ pc' \in ModuleSteps /\ pc' # "read") => idx' = idx ]_vars

C22_Witness ==
    /\ pc = "minify"
    /\ idx = 3
    /\ Cur = "chrome"
    /\ wrote["chrome"] = { << "manifest.json" >>, << jsFiles[1] >>, << jsFiles[2] >> }
    /\ sourceCode = env.jsText[jsFiles[3]]
    /\ minified = << >>

(***************************************************************************)
(* C23. buildPlatform(P) changes files under the release directory of P    *)
(* only. Every step that changes a release directory is a build step of    *)
(* the platform being built, and that directory is neither the source      *)
(* directory nor the release directory of another platform; no step,       *)
(* of a build that completes or of one that fails, changes the source      *)
(* tree, the project descriptor or the other platform's release directory. *)
(***************************************************************************)
OwnDirOnly(k) ==
    /\ PLATFORMS[k].releaseDir # sourceDir
    /\ \A j \in PlatformKeys \ { k } : PLATFORMS[j].releaseDir # PLATFORMS[k].releaseDir

C23_WritesOwnDirOnly ==
    [][ /\ env' = env
        /\ \A k \in PlatformKeys :
            out'[k] # out[k] =>
                /\ pc \in BuildPcs
                /\ todo # << >>
                /\ Head(todo) = k
                /\ OwnDirOnly(k)
        /\ (pc \in BuildPcs /\ Cur \in PlatformKeys) =>
            /\ OwnDirOnly(Cur)
            /\ \A j \in PlatformKeys \ { Cur } : out'[j] = out[j] ]_vars

C23_Witness ==
    /\ Failed("firefox")
    /\ failedAt = "write"
    /\ wrote["firefox"] # {}
    /\ out["firefox"] # before["firefox"]
    /\ "chrome" \in completed
    /\ BundleComplete("chrome")
    /\ NoEntry(out["chrome"], << "old.js" >>)

(***************************************************************************)
(* C24. copyDir on a finite source tree terminates: a started call returns *)
(* or throws. When it returns, dest holds the directory itself, every      *)
(* subdirectory and every file of src at the same relative path with the   *)
(* same content, and what else was at dest before; src is never changed.   *)
(* When src is absent or may not be read, or a directory below it may not  *)
(* be read, the call throws and never returns normally.                    *)
(***************************************************************************)
Mirror(tree) == { Dir(<< >>) } \cup tree

CopyOutcome ==
    /\ walk.status = "returned" =>
        /\ walk.srcExists
        /\ walk.unreadable = {}
        /\ Mirror(walk.src) \subseteq walk.dest
        /\ walk.dest = Overlay(walk.dest0, Mirror(walk.src))
        /\ Mirror(walk.src) = copyDirEntries(walk.src, << >>)
    /\ walk.status = "threw" => (~walk.srcExists \/ walk.unreadable # {})
    /\ \A e \in walk.dest0 : e.path \notin Paths(Mirror(walk.src)) => e \in walk.dest

C24_CopyDirMirrors ==
    /\ []CopyOutcome
    /\ [][ /\ walk'.src = walk.src
           /\ walk'.srcExists = walk.srcExists
           /\ walk.status \in { "returned", "threw" } => walk' = walk ]_vars
    /\ (walk.status = "running") ~> (walk.status \in { "returned", "threw" })
    /\ (walk.status = "running" /\ (~walk.srcExists \/ << >> \in walk.unreadable))
          ~> (walk.status = "threw")

C24_Witness ==
    /\ walk.status = "returned"
    /\ walk.src = { Dir(<< "a" >>), Dir(<< "a", "a" >>), File(<< "a", "a", "b" >>, << "z" >>) }
    /\ walk.dest0 # {}
    /\ File(<< "a", "a", "b" >>, << "z" >>) \in walk.dest
    /\ File(<< "kept" >>, << "k" >>) \in walk.dest

====
